---- MODULE Spec2Model ----
(***************************************************************************)
(* Product-Catalogue: the list page (js/main.js) and the detail page       *)
(* (js/product.js) as state machines.                                      *)
(*                                                                         *)
(* A JavaScript string is a sequence of one-character strings.  A task of  *)
(* the event loop (an event handler, a timer callback, the continuation of *)
(* an awaited promise) runs to completion and is one action.  Time is      *)
(* counted in ticks of TickMs milliseconds; a timer holds the ticks left   *)
(* until it is due, and a due timer fires before time advances further.    *)
(* The payload of data/products.json is a value that is no array, or a     *)
(* JSON array whose elements are product records (objects with the fields  *)
(* of the data model; a string field may hold a surrogate code unit that   *)
(* has no partner) or null.                                                *)
(***************************************************************************)
EXTENDS Integers, Sequences, FiniteSets, TLC

VARIABLES
  \* ---- list page (js/main.js) ----
  retries,        \* argument of fetchProductsWithRetry
  pc,             \* where fetchProductsWithRetry is suspended: "fetch", "json", "delay", "done"
  result,         \* "none" while loading, then "ok" or "failed"
  attempt,        \* the loop variable of fetchProductsWithRetry
  fetchTimer,     \* safeFetch's timeout timer: ticks left, NoTimer when not set
  delayTimer,     \* the retry delay timer
  stale,          \* requests of timed-out attempts that are still in flight
  products,       \* let products
  lastRendered,   \* let lastRendered
  container,      \* what #products shows: "initial", "empty", "cards", "noResults", "failure"
  msgText,        \* #msg textContent
  msgHidden,      \* #msg aria-hidden
  searchValue,    \* #search value
  sortValue,      \* #sort value
  debounceTimer,  \* the timer t of debounce
  \* ---- list page, history (not program state) ----
  fetchCount,     \* calls of safeFetch so far
  firstTimedOut,  \* attempt 0 ended by its timeout
  delayKept,      \* every retry so far started at least RETRY_DELAY after the failure
  sinceFail,      \* ticks since the last failed attempt (saturating)
  writes,         \* assignments to products so far
  payload,        \* the array the successful attempt delivered
  lastRender,     \* who wrote #products last: "none", "load", "apply"
  sinceInput,     \* ticks since the last input event (saturating), NoTimer before the first
  sinceEvent,     \* ticks since the last user event (saturating), NoTimer before the first
  burstEvents,    \* user events of the current burst (counted up to 2)
  burstRuns,      \* runs of applyFilters since the current burst began (counted up to 2)
  debRuns,        \* debounced runs of applyFilters since the last input event
  uncaught,       \* an event handler or timer callback has ended by an exception
  \* ---- detail page (js/product.js) ----
  idParam,        \* the id parameter of the URL: [present, s]
  dpc,            \* where loadAndRender is: "fetch", "json", "done"
  dResult,        \* "none" while loading, then "noId", "ok" or "failed"
  dTimer,         \* safeFetch's timeout timer on the detail page
  dView,          \* what #product-detail shows: "initial", "notFound", "product", "loadError"
  dProduct,       \* <<p>> for the record p that renderProduct rendered, <<>> when none
  dGallery,       \* the images of the gallery, <<>> when there is no gallery
  dMain,          \* src of #main-img
  dActive,        \* index of the active thumbnail, 0 when none
  dList,          \* history: the array the detail page's fetch delivered
  \* ---- theme (both pages) ----
  page,           \* the page loaded: "list" or "detail" ("none" before the first load)
  stored,         \* localStorage "theme": "none", "light", "dark"
  dataTheme,      \* data-theme of the document element
  toggleText,     \* text of #theme-toggle
  logoSrc,        \* src of #site-logo
  themeLog,       \* history: the persisted value after the first load and after every
                  \* toggle since, with the page it happened on
  freshLoad       \* history: the first load found no stored preference

listVars == <<retries, pc, result, attempt, fetchTimer, delayTimer, stale, products,
              lastRendered, container, msgText, msgHidden, searchValue, sortValue,
              debounceTimer, fetchCount, firstTimedOut, delayKept, sinceFail, writes,
              payload, lastRender, sinceInput, sinceEvent, burstEvents, burstRuns,
              debRuns, uncaught>>
detailVars == <<idParam, dpc, dResult, dTimer, dView, dProduct, dGallery, dMain, dActive,
                dList>>
themeVars == <<page, stored, dataTheme, toggleText, logoSrc, themeLog, freshLoad>>
vars == <<listVars, detailVars, themeVars>>
\* what an action of the list page leaves alone
notList == <<detailVars, themeVars>>

(***************************************************************************)
(* Program constants and the bounds of the model.                          *)
(***************************************************************************)
FETCH_TIMEOUT == 8000
MAX_RETRIES == 1
RETRY_DELAY == 500
DEBOUNCE_WAIT == 250

TickMs == DEBOUNCE_WAIT
FetchTicks == FETCH_TIMEOUT \div TickMs
DelayTicks == RETRY_DELAY \div TickMs
DebounceTicks == DEBOUNCE_WAIT \div TickMs
NoTimer == 0 - 1

\* fetchProductsWithRetry is explored for retries in 0 .. MaxRetriesArg
MaxRetriesArg == 1
\* a payload of the detail page holds at most MaxPayload elements
MaxPayload == 2
\* the pure-function specification draws product sets of at most MaxProducts records
MaxProducts == 3
\* and queries of at most MaxQueryLen characters
MaxQueryLen == 2
\* toggles recorded per page load
MaxToggles == 4

(***************************************************************************)
(* Strings.                                                                *)
(***************************************************************************)
\* String.prototype.toLowerCase, on the characters the model uses
LowerChar(c) ==
  CASE c = "A" -> "a"
    [] c = "B" -> "b"
    [] c = "M" -> "m"
    [] OTHER -> c

ToLowerCase(s) == [i \in 1..Len(s) |-> LowerChar(s[i])]

IsSpace(c) == c = " "

RECURSIVE TrimStart(_)
TrimStart(s) ==
  IF s # <<>> /\ IsSpace(Head(s)) THEN TrimStart(Tail(s)) ELSE s

RECURSIVE TrimEnd(_)
TrimEnd(s) ==
  IF s # <<>> /\ IsSpace(s[Len(s)]) THEN TrimEnd(SubSeq(s, 1, Len(s) - 1)) ELSE s

\* String.prototype.trim
Trim(s) == TrimEnd(TrimStart(s))

\* String.prototype.includes
Includes(s, q) ==
  \E i \in 0..(Len(s) - Len(q)) : SubSeq(s, i + 1, i + Len(q)) = q

DigitChar(d) ==
  CASE d = 0 -> "0" [] d = 1 -> "1" [] d = 2 -> "2" [] d = 3 -> "3" [] d = 4 -> "4"
    [] d = 5 -> "5" [] d = 6 -> "6" [] d = 7 -> "7" [] d = 8 -> "8" [] d = 9 -> "9"

\* String(n) of a natural number
RECURSIVE NumToString(_)
NumToString(n) ==
  IF n < 10 THEN <<DigitChar(n)>>
  ELSE Append(NumToString(n \div 10), DigitChar(n % 10))

\* a surrogate code unit without its partner, as one character of a string
LoneSurrogate == "uD800"

\* encodeURIComponent(s) throws URIError when s holds a lone surrogate
EncodeThrows(s) == \E i \in 1..Len(s) : s[i] = LoneSurrogate

(***************************************************************************)
(* The elements of a payload.                                              *)
(***************************************************************************)
\* the JSON value null
Null == [null |-> TRUE]
IsNull(p) == p = Null

\* a record's id is a JSON number or a JSON string
NumId(n) == [kind |-> "num", n |-> n, s |-> <<>>]
StrId(str) == [kind |-> "str", n |-> 0, s |-> str]

\* String(x.id), and x.id in a template literal
IdText(id) == IF id.kind = "num" THEN NumToString(id.n) ELSE id.s

(***************************************************************************)
(* Filtering and sorting (applyFilters).                                   *)
(***************************************************************************)
\* String(p.name || ""): name is a string, and "" || "" is ""
NameText(p) == p.name
\* String(p.finish || "")
FinishText(p) == p.finish
\* String(p.slots || ""): slots is a number, and 0 is falsy
SlotsText(p) == IF p.slots = 0 THEN <<>> ELSE NumToString(p.slots)

\* (searchInput.value || "").trim().toLowerCase()
Query(value) == ToLowerCase(Trim(value))

\* the callback of products.filter throws TypeError on null, unless the query is empty
FilterThrows(ps, q) == q # <<>> /\ \E i \in 1..Len(ps) : IsNull(ps[i])

\* the callback of products.filter
Matches(p, q) ==
  \/ q = <<>>
  \/ Includes(ToLowerCase(NameText(p)), q)
  \/ Includes(ToLowerCase(FinishText(p)), q)
  \/ Includes(ToLowerCase(SlotsText(p)), q)

RECURSIVE Filter(_, _)
Filter(ps, q) ==
  IF ps = <<>> THEN <<>>
  ELSE IF Matches(Head(ps), q) THEN <<Head(ps)>> \o Filter(Tail(ps), q)
       ELSE Filter(Tail(ps), q)

\* (a slip: the descending comparators subtract the wrong way round)
CompareAscendingOnly(sv, a, b) ==
  CASE sv = "price-asc"  -> a.price - b.price
    [] sv = "price-desc" -> a.price - b.price
    [] sv = "slots-asc"  -> a.slots - b.slots
    [] sv = "slots-desc" -> a.slots - b.slots
    [] OTHER -> 0

\* the comparator applyFilters hands to sort for this sort value (0 when it sorts nothing)
Compare(sv, a, b) ==
  CASE sv = "price-asc"  -> a.price - b.price
    [] sv = "price-desc" -> b.price - a.price
    [] sv = "slots-asc"  -> a.slots - b.slots
    [] sv = "slots-desc" -> b.slots - a.slots
    [] OTHER -> 0

\* Array.prototype.sort is stable: x goes behind every element that is not greater
RECURSIVE InsertStable(_, _, _)
InsertStable(sorted, x, sv) ==
  IF sorted = <<>> THEN <<x>>
  ELSE IF Compare(sv, sorted[Len(sorted)], x) > 0
       THEN Append(InsertStable(SubSeq(sorted, 1, Len(sorted) - 1), x, sv),
                   sorted[Len(sorted)])
       ELSE Append(sorted, x)

RECURSIVE SortStable(_, _)
SortStable(list, sv) ==
  IF list = <<>> THEN <<>>
  ELSE InsertStable(SortStable(SubSeq(list, 1, Len(list) - 1), sv), list[Len(list)], sv)

\* applyFilters sorts for these four values of the select, and for no other
Sorts(sv) == sv \in {"price-asc", "price-desc", "slots-asc", "slots-desc"}

\* a comparator reads a.price or a.slots of null: TypeError.  sort compares every element
\* of a list of two or more
SortThrows(list, sv) ==
  Sorts(sv) /\ Len(list) >= 2 /\ \E i \in 1..Len(list) : IsNull(list[i])

\* applyFilters throws before it reaches renderList
ApplyThrowsEarly(ps, value, sv) ==
  \/ FilterThrows(ps, Query(value))
  \/ SortThrows(Filter(ps, Query(value)), sv)

\* the list applyFilters hands to renderList
Derive(ps, value, sv) == SortStable(Filter(ps, Query(value)), sv)

\* createCard(p) throws: TypeError on p.image of null, URIError of encodeURIComponent on
\* p.id (the links of the card) or on the message and subject that hold p.name and p.id
\* (makeWhatsAppLink, makeEmailLink)
CreateCardThrows(p) ==
  IsNull(p) \/ EncodeThrows(IdText(p.id)) \/ EncodeThrows(p.name)

\* renderList(list) throws: the first card that cannot be built ends forEach
RenderThrows(list) == \E i \in 1..Len(list) : CreateCardThrows(list[i])

\* #products after renderList(list): emptied, then the message, or the cards once all of
\* them are built
ContainerFor(list) ==
  IF list = <<>> THEN "noResults"
  ELSE IF RenderThrows(list) THEN "empty"
  ELSE "cards"


(***************************************************************************)
(* The list page: data of the model.                                       *)
(***************************************************************************)
LoadingMsg == "Loading products..."
FailMsg == "Sorry - could not load products at this time."

\* two records as the data model has them, and one whose id is a string with a lone
\* surrogate
Rec1 ==
  [id |-> NumId(1), name |-> <<"M", "a">>, finish |-> <<"b">>, slots |-> 2, price |-> 20]
Rec2 ==
  [id |-> NumId(2), name |-> <<"B", "a">>, finish |-> <<"m">>, slots |-> 4, price |-> 10]
RecBadId ==
  [id |-> StrId(<<"a", LoneSurrogate>>), name |-> <<"a", "m">>, finish |-> <<"M">>,
   slots |-> 2, price |-> 10]

\* the arrays res.json() may resolve with: records, and null among them
ListPayloads ==
  { <<>>, <<Rec1>>, <<Rec1, Rec2>>,
    <<Null>>, <<Rec1, Null>>, <<RecBadId>>, <<Rec2, RecBadId>> }

\* sequences of at most n elements of S, no element twice
RECURSIVE SeqsNoRepeat(_, _)
SeqsNoRepeat(S, n) ==
  IF n = 0 THEN {<<>>}
  ELSE LET shorter == SeqsNoRepeat(S, n - 1)
           fresh == { x \in shorter \X S :
                        /\ Len(x[1]) = n - 1
                        /\ \A i \in 1..Len(x[1]) : x[1][i] # x[2] }
       IN  shorter \cup { Append(x[1], x[2]) : x \in fresh }

\* what the user may have in the search box, and the options of the sort select
SearchValues == { <<>>, <<"b">>, <<"2">> }
SortValues == { "relevance", "price-asc", "price-desc", "slots-asc", "slots-desc" }

Min(a, b) == IF a < b THEN a ELSE b

(***************************************************************************)
(* The list page: fetchProductsWithRetry and safeFetch.                    *)
(***************************************************************************)
\* attempt === retries, in the catch block
IsLastAttempt(a, r) == a = r
\* attempt <= retries, the loop condition
LoopContinues(a, r) == a <= r

\* (a slip: the loading message is left in place)
SuccessMsgKept == [text |-> LoadingMsg, hidden |-> FALSE]
\* msgEl after a successful load
SuccessMsg == [text |-> "", hidden |-> TRUE]

\* renderList(list): lastRendered is a copy of the list, #products shows it unless a card
\* cannot be built, and then renderList throws
RenderList(list) ==
  [lastRendered |-> list, container |-> ContainerFor(list), throws |-> RenderThrows(list)]

\* attempt++ and the loop test, gap ticks after the failure; a further iteration calls
\* safeFetch
NextIteration(gap) ==
  /\ attempt' = attempt + 1
  /\ delayTimer' = NoTimer
  /\ IF LoopContinues(attempt + 1, retries)
     THEN /\ pc' = "fetch"
          /\ fetchTimer' = FetchTicks
          /\ fetchCount' = fetchCount + 1
          /\ delayKept' = (delayKept /\ gap >= DelayTicks)
          /\ result' = result
     ELSE /\ pc' = "done"
          /\ result' = "failed"
          /\ fetchTimer' = NoTimer
          /\ UNCHANGED <<fetchCount, delayKept>>

\* the catch block of fetchProductsWithRetry, msg, cont and by being #msg, #products and
\* its last writer as the try block left them
CatchBlock(msg, cont, by) ==
  /\ sinceFail' = 0
  /\ IF IsLastAttempt(attempt, retries)
     THEN /\ msgText' = FailMsg
          /\ msgHidden' = FALSE
          /\ container' = "failure"
          /\ lastRender' = "load"
          /\ NextIteration(0)
     ELSE /\ msgText' = msg.text
          /\ msgHidden' = msg.hidden
          /\ container' = cont
          /\ lastRender' = by
          /\ pc' = "delay"
          /\ delayTimer' = DelayTicks
          /\ fetchTimer' = NoTimer
          /\ UNCHANGED <<attempt, fetchCount, delayKept, result>>

\* the catch block after a throw that came before the try block wrote anything
CatchEarly == CatchBlock([text |-> msgText, hidden |-> msgHidden], container, lastRender)

uiVars == <<searchValue, sortValue, debounceTimer, sinceInput, sinceEvent, burstEvents,
           burstRuns, debRuns, uncaught>>

\* the timeout timer of safeFetch fires first: reject("Request timed out"); the request
\* itself is not cancelled
TimeoutFire ==
  /\ pc = "fetch" /\ fetchTimer = 0
  /\ stale' = stale + 1
  /\ firstTimedOut' = (firstTimedOut \/ attempt = 0)
  /\ CatchEarly
  /\ UNCHANGED <<retries, products, lastRendered, writes, payload, uiVars, notList>>

\* fetch rejects (network error): clearTimeout, reject(err)
FetchReject ==
  /\ pc = "fetch" /\ fetchTimer # 0
  /\ CatchEarly
  /\ UNCHANGED <<retries, stale, firstTimedOut, products, lastRendered, writes, payload,
                 uiVars, notList>>

\* fetch resolves with a response whose status is not ok: clearTimeout, then the throw
FetchNotOk ==
  /\ pc = "fetch" /\ fetchTimer # 0
  /\ CatchEarly
  /\ UNCHANGED <<retries, stale, firstTimedOut, products, lastRendered, writes, payload,
                 uiVars, notList>>

\* fetch resolves with an ok response: clearTimeout, then res.json() is awaited
FetchOk ==
  /\ pc = "fetch" /\ fetchTimer # 0
  /\ pc' = "json"
  /\ fetchTimer' = NoTimer
  /\ UNCHANGED <<retries, result, attempt, delayTimer, stale, products, lastRendered,
                 container, msgText, msgHidden, fetchCount, firstTimedOut, delayKept,
                 sinceFail, writes, payload, lastRender, uiVars, notList>>

\* res.json() rejects: the body is no JSON, or the connection broke
JsonReject ==
  /\ pc = "json"
  /\ CatchEarly
  /\ UNCHANGED <<retries, stale, firstTimedOut, products, lastRendered, writes, payload,
                 uiVars, notList>>

\* res.json() resolves with a value that is no array
JsonNotArray ==
  /\ pc = "json"
  /\ CatchEarly
  /\ UNCHANGED <<retries, stale, firstTimedOut, products, lastRendered, writes, payload,
                 uiVars, notList>>

\* res.json() resolves with an array: products = json, #msg is cleared and
\* renderList(products) is called, all inside the try block; then return, or the catch
\* block when renderList has thrown
JsonArray(list) ==
  /\ pc = "json"
  /\ products' = list
  /\ writes' = writes + 1
  /\ lastRendered' = RenderList(list).lastRendered
  /\ IF RenderList(list).throws
     THEN /\ CatchBlock(SuccessMsg, RenderList(list).container, "load")
          /\ UNCHANGED <<payload, retries, stale, firstTimedOut, uiVars, notList>>
     ELSE /\ payload' = list
          /\ msgText' = SuccessMsg.text
          /\ msgHidden' = SuccessMsg.hidden
          /\ container' = RenderList(list).container
          /\ lastRender' = "load"
          /\ pc' = "done"
          /\ result' = "ok"
          /\ UNCHANGED <<retries, attempt, fetchTimer, delayTimer, stale, fetchCount,
                         firstTimedOut, delayKept, sinceFail, uiVars, notList>>

\* the retry delay is over: the next iteration of the loop
DelayFire ==
  /\ pc = "delay" /\ delayTimer = 0
  /\ NextIteration(sinceFail)
  /\ UNCHANGED <<retries, stale, products, lastRendered, container, msgText, msgHidden,
                 firstTimedOut, sinceFail, writes, payload, lastRender, uiVars, notList>>

\* the request of a timed-out attempt settles: clearTimeout of a timer that has fired,
\* resolve or reject of a promise that is settled
StaleSettle ==
  /\ stale > 0
  /\ stale' = stale - 1
  /\ UNCHANGED <<retries, pc, result, attempt, fetchTimer, delayTimer, products,
                 lastRendered, container, msgText, msgHidden, fetchCount, firstTimedOut,
                 delayKept, sinceFail, writes, payload, lastRender, uiVars, notList>>

(***************************************************************************)
(* The list page: search and sort.                                         *)
(***************************************************************************)
\* (a slip: a pending timer is left to run instead of being restarted)
TimerNotRestarted(t) == IF t = NoTimer THEN DebounceTicks ELSE t
\* the timer of debounce after a call: clearTimeout(t), t = setTimeout(..., wait)
TimerAfterInput(t) == DebounceTicks

\* applyFilters() as a handler: filter builds a new array, sort acts on it, and
\* renderList shows it; an exception on the way ends the handler
ApplyFilters(value, sv) ==
  /\ products' = products
  /\ IF ApplyThrowsEarly(products, value, sv)
     THEN /\ uncaught' = TRUE
          /\ UNCHANGED <<lastRendered, container, lastRender>>
     ELSE /\ lastRendered' = RenderList(Derive(products, value, sv)).lastRendered
          /\ container' = RenderList(Derive(products, value, sv)).container
          /\ lastRender' = "apply"
          /\ uncaught' = (uncaught \/ RenderList(Derive(products, value, sv)).throws)

StartsBurst == sinceEvent = NoTimer \/ sinceEvent >= DebounceTicks

loaderVars == <<retries, pc, result, attempt, fetchTimer, delayTimer, stale, msgText,
                msgHidden, fetchCount, firstTimedOut, delayKept, sinceFail, writes, payload>>

\* an input event of #search, the value being v afterwards (it may be the value the box
\* had): the debounced handler
Input(v) ==
  /\ searchValue' = v
  /\ debounceTimer' = TimerAfterInput(debounceTimer)
  /\ sinceInput' = 0
  /\ sinceEvent' = 0
  /\ burstEvents' = IF StartsBurst THEN 1 ELSE Min(burstEvents + 1, 2)
  /\ burstRuns' = IF StartsBurst THEN 0 ELSE burstRuns
  /\ debRuns' = 0
  /\ UNCHANGED <<notList, loaderVars, products, lastRendered, container, lastRender,
                 sortValue, uncaught>>

\* the debounce timer fires: fn(...args), which is applyFilters()
DebounceFire ==
  /\ debounceTimer = 0
  /\ debounceTimer' = NoTimer
  /\ ApplyFilters(searchValue, sortValue)
  /\ burstRuns' = Min(burstRuns + 1, 2)
  /\ debRuns' = Min(debRuns + 1, 2)
  /\ UNCHANGED <<notList, loaderVars, searchValue, sortValue, sinceInput, sinceEvent,
                 burstEvents>>

\* a change event of #sort: applyFilters is the handler
SortChange(v) ==
  /\ v # sortValue
  /\ sortValue' = v
  /\ ApplyFilters(searchValue, v)
  /\ sinceEvent' = 0
  /\ burstEvents' = IF StartsBurst THEN 1 ELSE Min(burstEvents + 1, 2)
  /\ burstRuns' = Min((IF StartsBurst THEN 0 ELSE burstRuns) + 1, 2)
  /\ UNCHANGED <<notList, loaderVars, searchValue, debounceTimer, sinceInput, debRuns>>

(***************************************************************************)
(* Time.                                                                   *)
(***************************************************************************)
Due == fetchTimer = 0 \/ delayTimer = 0 \/ debounceTimer = 0

Left(t) == IF t > 0 THEN t - 1 ELSE t

\* a tick later, for the history of the user events
Elapsed(t) == IF t = NoTimer THEN NoTimer ELSE Min(t + 1, DebounceTicks)

Tick ==
  /\ ~Due
  /\ fetchTimer' = Left(fetchTimer)
  /\ delayTimer' = Left(delayTimer)
  /\ debounceTimer' = Left(debounceTimer)
  /\ sinceFail' = Min(sinceFail + 1, DelayTicks)
  /\ sinceEvent' = Elapsed(sinceEvent)
  /\ sinceInput' = Elapsed(sinceInput)
  /\ UNCHANGED <<notList, retries, pc, result, attempt, stale, products, lastRendered,
                 container, msgText, msgHidden, searchValue, sortValue, fetchCount, firstTimedOut,
                 delayKept, writes, payload, lastRender, burstEvents, burstRuns, debRuns,
                 uncaught>>

(***************************************************************************)
(* The list page after init(): the listeners are registered and            *)
(* fetchProductsWithRetry has run up to its first await.                   *)
(***************************************************************************)
\* the detail page is not open
DetailIdle ==
  /\ idParam = [present |-> FALSE, s |-> <<>>] /\ dpc = "done" /\ dResult = "none"
  /\ dTimer = NoTimer /\ dView = "initial"
  /\ dProduct = <<>> /\ dGallery = <<>> /\ dMain = "" /\ dActive = 0 /\ dList = <<>>

\* the theme left alone: the list page, loaded with the light theme stored
ThemeIdle ==
  /\ page = "list" /\ stored = "light" /\ dataTheme = "light" /\ toggleText = "moon"
  /\ logoSrc = "static" /\ themeLog = <<>> /\ freshLoad = FALSE

\* the list page is not open
ListIdle ==
  /\ retries = MAX_RETRIES /\ pc = "done" /\ result = "none" /\ attempt = 0
  /\ fetchTimer = NoTimer /\ delayTimer = NoTimer /\ stale = 0
  /\ products = <<>> /\ lastRendered = <<>> /\ container = "initial"
  /\ msgText = "" /\ msgHidden = FALSE
  /\ searchValue = <<>> /\ sortValue = "relevance" /\ debounceTimer = NoTimer
  /\ fetchCount = 0 /\ firstTimedOut = FALSE /\ delayKept = TRUE /\ sinceFail = 0
  /\ writes = 0 /\ payload = <<>> /\ lastRender = "none"
  /\ sinceInput = NoTimer /\ sinceEvent = NoTimer
  /\ burstEvents = 0 /\ burstRuns = 0 /\ debRuns = 0 /\ uncaught = FALSE

ListInit ==
  /\ retries \in 0..MaxRetriesArg
  /\ pc = "fetch" /\ result = "none" /\ attempt = 0
  /\ fetchTimer = FetchTicks /\ delayTimer = NoTimer /\ stale = 0
  /\ products = <<>> /\ lastRendered = <<>> /\ container = "initial"
  /\ msgText = LoadingMsg /\ msgHidden = FALSE
  /\ searchValue = <<>> /\ sortValue = "relevance" /\ debounceTimer = NoTimer
  /\ fetchCount = 1 /\ firstTimedOut = FALSE /\ delayKept = TRUE /\ sinceFail = 0
  /\ writes = 0 /\ payload = <<>> /\ lastRender = "none"
  /\ sinceInput = NoTimer /\ sinceEvent = NoTimer
  /\ burstEvents = 0 /\ burstRuns = 0 /\ debRuns = 0 /\ uncaught = FALSE

Init == ListInit /\ DetailIdle /\ ThemeIdle

Next ==
  \/ TimeoutFire
  \/ FetchReject
  \/ FetchNotOk
  \/ FetchOk
  \/ JsonReject
  \/ JsonNotArray
  \/ \E list \in ListPayloads : JsonArray(list)
  \/ DelayFire
  \/ StaleSettle
  \/ \E v \in SearchValues : Input(v)
  \/ DebounceFire
  \/ \E v \in SortValues : SortChange(v)
  \/ Tick

Spec == Init /\ [][Next]_vars


\* The loader on its own, the user idle.  The event loop runs a due timer's callback and
\* lets time pass; the network owes nothing: a response, or the body of one, may never
\* arrive.
LoaderNext ==
  \/ TimeoutFire
  \/ FetchReject
  \/ FetchNotOk
  \/ FetchOk
  \/ JsonReject
  \/ JsonNotArray
  \/ \E list \in ListPayloads : JsonArray(list)
  \/ DelayFire
  \/ StaleSettle
  \/ Tick

SpecLive ==
  /\ Init
  /\ [][LoaderNext]_vars
  /\ WF_vars(Tick)
  /\ WF_vars(TimeoutFire)
  /\ WF_vars(DelayFire)

(***************************************************************************)
(* Claims about the list page.                                             *)
(***************************************************************************)
\* The bounded retry loop: at most retries + 1 calls of safeFetch, attempt k + 1 only
\* after k failures and a full retry delay, nothing in flight or pending once an attempt
\* has succeeded.
RetryLoopBounded ==
  /\ fetchCount <= retries + 1
  /\ delayKept
  /\ pc \in {"fetch", "json"} => (fetchCount = attempt + 1 /\ result = "none")
  /\ pc = "delay" => (fetchCount = attempt + 1 /\ attempt < retries /\ result = "none")
  /\ result = "ok" => (pc = "done" /\ fetchTimer = NoTimer /\ delayTimer = NoTimer)
  /\ pc = "done" <=> result # "none"

\* C1: fetchProductsWithRetry(retries) makes at most retries + 1 attempts, attempt k + 1
\* starts only after attempt k has failed and the 500ms delay has elapsed, no attempt
\* starts after a success, and the loader always terminates.
C1_Claim == [](RetryLoopBounded) /\ <>(pc = "done")

\* C2: when the first attempt runs into the timeout and a retry succeeds, the product
\* set is the payload, no error message is left (the message area is empty and hidden,
\* the container does not hold the failure text), and the load has rendered every record
\* of the payload.
C2_RetrySucceeds ==
  (result = "ok" /\ firstTimedOut) =>
    /\ products = payload
    /\ msgText = "" /\ msgHidden
    /\ container \in {"cards", "noResults"}
    /\ lastRender = "load" => (lastRendered = payload /\ container = ContainerFor(payload))

C2_Witness ==
  /\ result = "ok" /\ firstTimedOut /\ attempt = 1 /\ stale = 1
  /\ lastRender = "load" /\ Len(payload) = 2 /\ lastRendered = payload

\* C3: when every attempt has failed the container shows the failure message and the
\* product set is empty; a recomputation after that does not crash and renders the
\* "no results" message; the failure message is shown only once the last allowed attempt
\* has failed.
C3_AllAttemptsFail ==
  /\ result = "failed" =>
       /\ products = <<>>
       /\ fetchCount = retries + 1
       /\ msgText = FailMsg /\ ~msgHidden
       /\ container = (IF lastRender = "apply" THEN "noResults" ELSE "failure")
       /\ ~uncaught
  /\ (container = "failure" \/ msgText = FailMsg) => result = "failed"

\* C4, as amended: only input events of the search box are debounced.  The debouncer
\* does not run applyFilters while its timer is pending, the timer is due 250ms after
\* the last input event, and once it has fired applyFilters has run exactly once since
\* that event; a change of the sort selection has run applyFilters at once.
C4_InputDebounced ==
  /\ sinceInput = NoTimer => (debounceTimer = NoTimer /\ debRuns = 0)
  /\ debounceTimer # NoTimer => (debRuns = 0 /\ debounceTimer = DebounceTicks - sinceInput)
  /\ (sinceInput # NoTimer /\ debounceTimer = NoTimer) =>
       (debRuns = 1 /\ sinceInput >= DebounceTicks)
  /\ (sinceEvent = 0 /\ sinceInput # 0) =>
       /\ burstRuns >= 1
       /\ (lastRender = "apply" /\ ~ApplyThrowsEarly(products, searchValue, sortValue)) =>
            lastRendered = Derive(products, searchValue, sortValue)

C4_Witness ==
  /\ burstEvents = 2 /\ sinceEvent = sinceInput /\ sinceInput >= DebounceTicks
  /\ debounceTimer = NoTimer /\ debRuns = 1 /\ burstRuns = 1
  /\ result = "ok" /\ lastRender = "apply" /\ Len(lastRendered) < Len(products)

\* C4, as claimed: in a burst of user events (input events and sort changes, each less
\* than 250ms after the one before) applyFilters runs exactly once, so never twice.
C4_Claim == burstRuns <= 1

\* C7: the product set is written at most once, by the first successful fetch, and holds
\* that payload, in its order, ever after.
C7_WrittenOnce ==
  /\ writes <= 1
  /\ writes = 0 => (products = <<>> /\ result # "ok")
  /\ writes = 1 => (result = "ok" /\ products = payload)

\* C10: once the load has succeeded and no debounce timer is pending, the rendered list
\* is the filter-and-sort of the product set under the search text and sort selection.
C10_Claim ==
  (result = "ok" /\ debounceTimer = NoTimer) =>
    lastRendered = Derive(products, searchValue, sortValue)


(***************************************************************************)
(* applyFilters as a function of the product set, the search text and the  *)
(* sort value: the list page after a successful load, the search text and  *)
(* the sort value entered and the debounce timer due.                      *)
(***************************************************************************)
FilterRecords ==
  { [id |-> NumId(1), name |-> <<"A", "b">>, finish |-> <<"m">>, slots |-> 0, price |-> 20],
    [id |-> NumId(2), name |-> <<"b", "a">>, finish |-> <<"M">>, slots |-> 10, price |-> 10],
    [id |-> NumId(3), name |-> <<"m">>, finish |-> <<"a", " ", "b">>, slots |-> 2,
     price |-> 10],
    [id |-> NumId(4), name |-> <<"B">>, finish |-> <<>>, slots |-> 2, price |-> 20] }

ProductSets == SeqsNoRepeat(FilterRecords, MaxProducts)

QueryChars == {"a", "B", " ", "0", "1"}

RECURSIVE StringsUpTo(_, _)
StringsUpTo(chars, n) ==
  IF n = 0 THEN {<<>>}
  ELSE LET shorter == StringsUpTo(chars, n - 1)
       IN  shorter \cup {Append(s, c) : s \in {t \in shorter : Len(t) = n - 1}, c \in chars}

Queries == StringsUpTo(QueryChars, MaxQueryLen)

\* the values of the sort select, and two that are none of the five
AnySortValues == SortValues \cup {"", "newest"}

FilterInit ==
  /\ DetailIdle /\ ThemeIdle
  /\ retries = MAX_RETRIES
  /\ pc = "done" /\ result = "ok" /\ attempt = 0
  /\ fetchTimer = NoTimer /\ delayTimer = NoTimer /\ stale = 0
  /\ products \in ProductSets
  /\ lastRendered = RenderList(products).lastRendered
  /\ container = RenderList(products).container
  /\ msgText = SuccessMsg.text /\ msgHidden = SuccessMsg.hidden
  /\ searchValue \in Queries /\ sortValue \in AnySortValues
  /\ debounceTimer = 0
  /\ fetchCount = 1 /\ firstTimedOut = FALSE /\ delayKept = TRUE /\ sinceFail = 0
  /\ writes = 1 /\ payload = products /\ lastRender = "load"
  /\ sinceInput = DebounceTicks /\ sinceEvent = DebounceTicks
  /\ burstEvents = 1 /\ burstRuns = 0 /\ debRuns = 0 /\ uncaught = FALSE

SpecFilter == FilterInit /\ [][DebounceFire]_vars

Range(seq) == {seq[i] : i \in 1..Len(seq)}

\* the position of record p in list
Pos(list, p) == CHOOSE i \in 1..Len(list) : list[i] = p

\* the filter as the claim states it: the string form of slots is String(slots)
ClaimedMatch(p, value) ==
  LET q == ToLowerCase(Trim(value))
  IN  \/ q = <<>>
      \/ Includes(ToLowerCase(p.name), q)
      \/ Includes(ToLowerCase(p.finish), q)
      \/ Includes(ToLowerCase(NumToString(p.slots)), q)

\* C5: applyFilters keeps exactly the records whose name, finish or string form of slots
\* holds the trimmed, lower-cased query; an empty or blank query keeps every record.
C5_Claim ==
  lastRender = "apply" =>
    /\ Range(lastRendered) = {p \in Range(products) : ClaimedMatch(p, searchValue)}
    /\ Trim(searchValue) = <<>> => Range(lastRendered) = Range(products)

\* the order the claim states for a sort value: -1 before, 1 behind, 0 a tie
ClaimedOrder(sv, a, b) ==
  LET asc(x, y) == IF x < y THEN 0 - 1 ELSE IF x > y THEN 1 ELSE 0
  IN  CASE sv = "price-asc"  -> asc(a.price, b.price)
        [] sv = "price-desc" -> asc(b.price, a.price)
        [] sv = "slots-asc"  -> asc(a.slots, b.slots)
        [] sv = "slots-desc" -> asc(b.slots, a.slots)
        [] OTHER -> 0

\* C6: the rendered list is the filtered subsequence in the order of the sort value:
\* by price or slots, ascending or descending, ties in their original order; for
\* "relevance" and for any other value the filtered subsequence as it is.
C6_SortedStable ==
  lastRender = "apply" =>
    LET in == Filter(products, Query(searchValue))
        out == lastRendered
    IN  /\ Len(out) = Len(in)
        /\ Range(out) = Range(in)
        /\ \A i, j \in 1..Len(out) :
             i < j => \/ ClaimedOrder(sortValue, out[i], out[j]) < 0
                      \/ /\ ClaimedOrder(sortValue, out[i], out[j]) = 0
                         /\ Pos(in, out[i]) < Pos(in, out[j])
        /\ sortValue \notin {"price-asc", "price-desc", "slots-asc", "slots-desc"} =>
             (out = in /\ ~uncaught)

C6_Witness ==
  /\ lastRender = "apply" /\ sortValue = "price-desc" /\ Len(lastRendered) = 3
  /\ lastRendered # Filter(products, Query(searchValue))
  /\ lastRendered[1].price = lastRendered[2].price
  /\ products[1].price < products[2].price


(***************************************************************************)
(* The detail page (js/product.js).                                        *)
(***************************************************************************)
Placeholder == "images/placeholder.png"

\* images: the array p.images, <<>> when it is absent or empty; image: "" when absent.
\* The name of the last record holds a lone surrogate.
DetailRecords ==
  { [id |-> NumId(3), name |-> <<"A">>, images |-> <<"a.png", "b.png">>, image |-> ""],
    [id |-> StrId(<<"3">>), name |-> <<"B">>, images |-> <<>>, image |-> "c.png"],
    [id |-> StrId(<<"0", "3">>), name |-> <<"C">>, images |-> <<>>, image |-> ""],
    [id |-> NumId(10), name |-> <<"D">>, images |-> <<"d.png">>, image |-> "e.png"],
    [id |-> NumId(7), name |-> <<"E", LoneSurrogate>>, images |-> <<>>, image |-> "f.png"] }

\* the arrays res.json() may resolve with: records, and null among them
DetailPayloads == SeqsNoRepeat(DetailRecords \cup {Null}, MaxPayload)

Absent == [present |-> FALSE, s |-> <<>>]
Param(str) == [present |-> TRUE, s |-> str]
IdParams == { Absent, Param(<<>>), Param(<<"3">>), Param(<<"0", "3">>), Param(<<"1", "0">>),
              Param(<<"7">>) }

\* !id, for what getParam returns: null or a string
NoId(param) == ~param.present \/ param.s = <<>>

\* the callback of list.find reads x.id of null, TypeError: find meets a null before it
\* meets a match
FindThrows(list, str) ==
  \E i \in 1..Len(list) :
    /\ IsNull(list[i])
    /\ \A j \in 1..(i - 1) : ~IsNull(list[j]) /\ IdText(list[j].id) # str

\* (a slip: the last match instead of the first)
RECURSIVE FindLast(_, _)
FindLast(list, str) ==
  IF list = <<>> THEN <<>>
  ELSE IF ~IsNull(list[Len(list)]) /\ IdText(list[Len(list)].id) = str
       THEN <<list[Len(list)]>>
       ELSE FindLast(SubSeq(list, 1, Len(list) - 1), str)

\* list.find((x) => String(x.id) === String(id)): <<x>> for the match, <<>> for undefined
RECURSIVE FindFirst(_, _)
FindFirst(list, str) ==
  IF list = <<>> THEN <<>>
  ELSE IF IdText(Head(list).id) = str THEN <<Head(list)>>
       ELSE FindFirst(Tail(list), str)

\* the images of renderProduct
Images(p) ==
  IF p.images # <<>> THEN p.images
  ELSE <<IF p.image # "" THEN p.image ELSE Placeholder>>

\* renderProduct(p) throws while it builds the markup, before it writes #product-detail:
\* URIError of encodeURIComponent on the message and subject that hold p.name and p.id
\* (makeWhatsAppLink, makeEmailLink)
RenderProductThrows(found) ==
  found # <<>> /\ (EncodeThrows(found[1].name) \/ EncodeThrows(IdText(found[1].id)))

notDetail == <<listVars, themeVars>>

\* renderNotFound()
RenderNotFound ==
  /\ dView' = "notFound"
  /\ dProduct' = <<>> /\ dGallery' = <<>> /\ dMain' = "" /\ dActive' = 0

\* renderProduct(p), found being <<p>> or <<>>
RenderProduct(found) ==
  IF found = <<>> THEN RenderNotFound
  ELSE /\ dView' = "product"
       /\ dProduct' = found
       /\ dGallery' = Images(found[1])
       /\ dMain' = Images(found[1])[1]
       /\ dActive' = 1

\* the catch block of loadAndRender
DetailCatch ==
  /\ dView' = "loadError"
  /\ dProduct' = <<>> /\ dGallery' = <<>> /\ dMain' = "" /\ dActive' = 0
  /\ dpc' = "done" /\ dResult' = "failed" /\ dTimer' = NoTimer

DetailTimeoutFire ==
  /\ dpc = "fetch" /\ dTimer = 0
  /\ DetailCatch
  /\ UNCHANGED <<idParam, dList, notDetail>>

DetailFetchReject ==
  /\ dpc = "fetch" /\ dTimer # 0
  /\ DetailCatch
  /\ UNCHANGED <<idParam, dList, notDetail>>

DetailFetchNotOk ==
  /\ dpc = "fetch" /\ dTimer # 0
  /\ DetailCatch
  /\ UNCHANGED <<idParam, dList, notDetail>>

DetailFetchOk ==
  /\ dpc = "fetch" /\ dTimer # 0
  /\ dpc' = "json" /\ dTimer' = NoTimer
  /\ UNCHANGED <<idParam, dResult, dView, dProduct, dGallery, dMain, dActive, dList,
                 notDetail>>

DetailJsonReject ==
  /\ dpc = "json"
  /\ DetailCatch
  /\ UNCHANGED <<idParam, dList, notDetail>>

DetailJsonNotArray ==
  /\ dpc = "json"
  /\ DetailCatch
  /\ UNCHANGED <<idParam, dList, notDetail>>

\* res.json() resolves with an array: find and renderProduct, or the catch block when
\* one of the two has thrown
DetailJsonArray(list) ==
  /\ dpc = "json"
  /\ dList' = list
  /\ IF FindThrows(list, idParam.s) \/ RenderProductThrows(FindFirst(list, idParam.s))
     THEN DetailCatch
     ELSE /\ RenderProduct(FindFirst(list, idParam.s))
          /\ dpc' = "done" /\ dResult' = "ok" /\ dTimer' = dTimer
  /\ UNCHANGED <<idParam, notDetail>>

\* a click on thumbnail i
ThumbnailClick(i) ==
  /\ dView = "product" /\ i \in 1..Len(dGallery)
  /\ dMain' = dGallery[i]
  /\ dActive' = i
  /\ UNCHANGED <<idParam, dpc, dResult, dTimer, dView, dProduct, dGallery, dList, notDetail>>

\* the error event of #main-img (the image does not load): onerror sets its src
MainImageError ==
  /\ dView = "product"
  /\ dMain' = Placeholder
  /\ UNCHANGED <<idParam, dpc, dResult, dTimer, dView, dProduct, dGallery, dActive, dList,
                 notDetail>>

DetailTick ==
  /\ dTimer > 0
  /\ dTimer' = dTimer - 1
  /\ UNCHANGED <<idParam, dpc, dResult, dView, dProduct, dGallery, dMain, dActive, dList,
                 notDetail>>

\* the detail page after DOMContentLoaded: loadAndRender has run up to its first await,
\* or to its return when there is no id
DetailInit ==
  /\ ListIdle /\ ThemeIdle
  /\ idParam \in IdParams
  /\ dList = <<>> /\ dProduct = <<>> /\ dGallery = <<>> /\ dMain = "" /\ dActive = 0
  /\ IF NoId(idParam)
     THEN dView = "notFound" /\ dpc = "done" /\ dResult = "noId" /\ dTimer = NoTimer
     ELSE dView = "initial" /\ dpc = "fetch" /\ dResult = "none" /\ dTimer = FetchTicks

DetailNext ==
  \/ DetailTimeoutFire
  \/ DetailFetchReject
  \/ DetailFetchNotOk
  \/ DetailFetchOk
  \/ DetailJsonReject
  \/ DetailJsonNotArray
  \/ \E list \in DetailPayloads : DetailJsonArray(list)
  \/ \E i \in 1..Len(dGallery) : ThumbnailClick(i)
  \/ MainImageError
  \/ DetailTick

SpecDetail == DetailInit /\ [][DetailNext]_vars

\* C8: after a successful load the product view shows the first record, in payload
\* order, whose String(id) is the id parameter; with the parameter absent, or no record
\* matching (an empty payload too), the not-found view is shown, with no gallery.
C8_DetailLookup ==
  /\ dResult = "ok" =>
       LET match(i) == ~IsNull(dList[i]) /\ IdText(dList[i].id) = idParam.s
       IN  IF \E i \in 1..Len(dList) : match(i)
           THEN LET first == CHOOSE i \in 1..Len(dList) :
                               match(i) /\ \A j \in 1..(i - 1) : ~match(j)
                IN  dView = "product" /\ dProduct = <<dList[first]>> /\ dGallery # <<>>
           ELSE dView = "notFound"
  /\ (~idParam.present \/ idParam.s = <<>>) => (dView = "notFound" /\ dResult = "noId")
  /\ dView = "notFound" => (dProduct = <<>> /\ dGallery = <<>> /\ dMain = "" /\ dActive = 0)
  /\ dView = "product" => dResult = "ok"

C8_Witness ==
  /\ dResult = "ok" /\ dView = "product" /\ Len(dList) = 2
  /\ ~IsNull(dList[1]) /\ ~IsNull(dList[2])
  /\ IdText(dList[1].id) = idParam.s /\ IdText(dList[2].id) = idParam.s
  /\ dList[1].id.kind = "num" /\ dProduct = <<dList[1]>>

(***************************************************************************)
(* The theme (setTheme, toggleTheme, initTheme of both pages).             *)
(***************************************************************************)
\* theme === "dark" ? sun : moon
ToggleIcon(theme) == IF theme = "dark" THEN "sun" ELSE "moon"

\* product.js changes the logo with the theme; main.js leaves it as the page has it
LogoFor(pg, theme) ==
  IF pg = "detail"
  THEN (IF theme = "dark" THEN "images/urVish logo V dark.png"
        ELSE "images/urVish logo V light.png")
  ELSE "static"

\* localStorage.getItem("theme") || "light"
SavedTheme(value) == IF value = "none" THEN "light" ELSE value

\* document.documentElement.getAttribute("data-theme") || "light"
CurrentTheme(attr) == IF attr = "none" THEN "light" ELSE attr

\* (a slip: the new theme does not depend on the current one)
NewThemeAlwaysDark(current) == "dark"
\* current === "dark" ? "light" : "dark"
NewTheme(current) == IF current = "dark" THEN "light" ELSE "dark"

\* setTheme(theme) on page pg
SetTheme(pg, theme) ==
  /\ dataTheme' = theme
  /\ stored' = theme
  /\ toggleText' = ToggleIcon(theme)
  /\ logoSrc' = LogoFor(pg, theme)

notTheme == <<listVars, detailVars>>

\* a page is loaded (the first load, a reload, a navigation): initTheme on a new document
LoadPage(pg) ==
  /\ pg # page
  /\ page' = pg
  /\ SetTheme(pg, SavedTheme(stored))
  /\ IF page = "none"
     THEN /\ themeLog' = <<[page |-> pg, value |-> SavedTheme(stored)]>>
          /\ freshLoad' = (stored = "none")
     ELSE UNCHANGED <<themeLog, freshLoad>>
  /\ UNCHANGED notTheme

\* a click on #theme-toggle
ToggleTheme ==
  /\ page # "none"
  /\ Len(themeLog) <= MaxToggles
  /\ SetTheme(page, NewTheme(CurrentTheme(dataTheme)))
  /\ themeLog' = Append(themeLog, [page |-> page, value |-> stored'])
  /\ UNCHANGED <<page, freshLoad, notTheme>>

\* the browser before the first page is loaded
ThemeInit ==
  /\ ListIdle /\ DetailIdle
  /\ page = "none" /\ stored \in {"none", "light", "dark"}
  /\ dataTheme = "none" /\ toggleText = "" /\ logoSrc = "static"
  /\ themeLog = <<>> /\ freshLoad = FALSE

ThemeNext ==
  \/ \E pg \in {"list", "detail"} : LoadPage(pg)
  \/ ToggleTheme

SpecTheme == ThemeInit /\ [][ThemeNext]_vars

\* C9: two toggles bring the persisted theme back to what it was before them, and the
\* first toggle after a load that found no stored preference takes it from light to dark.
C9_ToggleTwice ==
  /\ \A i \in 1..(Len(themeLog) - 2) : themeLog[i + 2].value = themeLog[i].value
  /\ themeLog # <<>> => stored = themeLog[Len(themeLog)].value
  /\ (freshLoad /\ Len(themeLog) >= 1) => themeLog[1].value = "light"
  /\ (freshLoad /\ Len(themeLog) >= 2) => themeLog[2].value = "dark"

C9_Witness ==
  /\ freshLoad /\ Len(themeLog) = 3
  /\ themeLog[1].value = "light" /\ themeLog[2].value = "dark" /\ themeLog[3].value = "light"
  /\ themeLog[2].page # themeLog[3].page /\ stored = "light"

====
